---- MODULE Spec2Model ----
(***************************************************************************)
(* Model of shaketune/resonances.py: the resonance-test pipeline           *)
(* graph_resonances_test_results, with calibrate_shaper and the shaper     *)
(* selection loop of plot_freq_response.                                   *)
(*                                                                         *)
(* Units.  Python floats are modelled as exact decimals held in integers:  *)
(*   - vibration fractions and smoothing values in thousandths             *)
(*     (0.010 -> 10, MAX_SMOOTHING 0.1 -> 100);                            *)
(*   - PSD values as integers, the two peak thresholds in hundredths of a  *)
(*     PSD unit (0.05 * max -> 5 * max);                                   *)
(*   - max_accel and frequencies as integers.                              *)
(* Multiplication by 100 is therefore exact: the model does not cover the  *)
(* case of two distinct floats whose products with 100 round to the same   *)
(* float.                                                                  *)
(***************************************************************************)
EXTENDS Integers, Sequences, FiniteSets, TLC

VARIABLES
    pc,                 \* position in graph_resonances_test_results
    trace,              \* the stages started so far, in order
    failed_at,          \* the stage whose exception ended the run, or "None"
    max_smoothing,      \* caller's argument: [given, val]
    max_freq,           \* caller's argument
    heap,               \* the numpy buffers allocated so far, by identity
    calibration_data,   \* the CalibrationData object: attribute -> buffer id
    analyzed,           \* the record and buffers as the analyzer returned them
    shapers,            \* all_shapers returned by find_best_shaper
    performance_shaper, \* the name returned by calibrate_shaper
    idx,                \* position of the for loop of plot_freq_response
    sel,                \* the locals of the selection loop
    peaks_threshold,    \* [detection, effect], in hundredths
    peaks,              \* indices returned by detect_peaks
    peaks_freqs,        \* frequencies returned by detect_peaks
    num_peaks,
    num_peaks_above_effect_threshold,
    legend,             \* the recommendation labels added to the legend
    fig,                \* "none", "created" (local), "returned"
    console             \* the lines printed

vars == <<pc, trace, failed_at, max_smoothing, max_freq, heap,
          calibration_data, analyzed, shapers, performance_shaper, idx, sel,
          peaks_threshold, peaks, peaks_freqs, num_peaks,
          num_peaks_above_effect_threshold, legend, fig, console>>

----------------------------------------------------------------------------
(* Bounds of the explored inputs *)

MaxShapers == 3
NumBins == 5

(* Program constants *)
PEAKS_DETECTION_THRESHOLD == 5
PEAKS_EFFECT_THRESHOLD == 12
MAX_SMOOTHING == 100

ShaperNames == <<"zv", "mzv", "ei", "2hump_ei", "3hump_ei">>

Vibrs == {10, 20}
Smoothings == {50, 100}
Accels == {4940, 4960, 5040}
CallerMaxSmoothings ==
    {[given |-> FALSE, val |-> 0], [given |-> TRUE, val |-> 40],
     [given |-> TRUE, val |-> 200]}
CallerMaxFreqs == {100, 150, 200}
PsdLevels == {1, 6, 48, 98}

NoOption == [set |-> FALSE, val |-> 0]
Some(v) == [set |-> TRUE, val |-> v]

----------------------------------------------------------------------------
(* The analyzer's output (shaper_calibrate.process_accelerometer_data and   *)
(* normalize_to_frequencies): a frequency grid of uniform spacing, three    *)
(* per-axis PSD vectors on it and their sum.                                *)

FreqGrid == [i \in 1..NumBins |-> (i - 1) * 50]

SumVec(a, b, c) == [i \in 1..Len(a) |-> a[i] + b[i] + c[i]]

Ones == [i \in 1..NumBins |-> 1]

Capture(px) ==
    [freq_bins |-> FreqGrid, psd_sum |-> SumVec(px, Ones, Ones),
     psd_x |-> px, psd_y |-> Ones, psd_z |-> Ones]

AnalyzerOutputs == { Capture(px) : px \in [1..NumBins -> PsdLevels] }

RefPsd == [i \in 1..NumBins |-> IF i = 2 THEN 98 ELSE 1]

----------------------------------------------------------------------------
(* The evaluator's output (shaper_calibrate.find_best_shaper): the shaper   *)
(* it recommends, or None, and the list of the candidates, whose names are  *)
(* those of the catalog, each once.                                         *)

Profiles == [vibrs : Vibrs, smoothing : Smoothings, max_accel : Accels]

ListsOfLen(n) ==
    { [i \in 1..n |-> [name |-> ShaperNames[i], vibrs |-> f[i].vibrs,
                       smoothing |-> f[i].smoothing,
                       max_accel |-> f[i].max_accel]] :
        f \in [1..n -> Profiles] }

AllLists == UNION { ListsOfLen(n) : n \in 0..MaxShapers }

EvaluatorPicks == { ShaperNames[i] : i \in 1..MaxShapers } \cup {"None"}

EvaluatorOutputs ==
    { [shaper |-> s, all_shapers |-> l] : s \in EvaluatorPicks, l \in AllLists }

FewOutputs ==
    { [shaper |-> "mzv",
       all_shapers |->
         <<[name |-> "zv", vibrs |-> 20, smoothing |-> 50, max_accel |-> 4940],
           [name |-> "mzv", vibrs |-> 10, smoothing |-> 100, max_accel |-> 4960]>>],
      [shaper |-> "zv",
       all_shapers |->
         <<[name |-> "zv", vibrs |-> 10, smoothing |-> 50, max_accel |-> 4940],
           [name |-> "mzv", vibrs |-> 10, smoothing |-> 50, max_accel |-> 5040]>>] }

----------------------------------------------------------------------------
(* The inputs explored, in three slices:                                    *)
(*   - no max_smoothing given: every capture, under every max_freq, with    *)
(*     the two evaluator outputs of FewOutputs;                             *)
(*   - max_smoothing 0.04 and max_freq 200, the reference capture: every    *)
(*     evaluator output;                                                    *)
(*   - the other configurations: the reference capture with FewOutputs.     *)

ExploredCaptures(ms) ==
    IF ms.given THEN {Capture(RefPsd)} ELSE AnalyzerOutputs

ExploredOutputs(px, mf, ms) ==
    IF px = RefPsd /\ mf = 200 /\ ms.given /\ ms.val = 40
    THEN EvaluatorOutputs
    ELSE FewOutputs

----------------------------------------------------------------------------
(* numpy and Python helpers *)

\* vec[mask]: a new array holding the entries of vec where mask is true
BoolIndex(vec, mask) ==
    LET F[i \in 0..Len(vec)] ==
            IF i = 0 THEN <<>>
            ELSE IF mask[i] THEN Append(F[i - 1], vec[i]) ELSE F[i - 1]
    IN F[Len(vec)]

\* freqs <= max_freq
MaskLeq(freqs, mf) == [i \in 1..Len(freqs) |-> freqs[i] <= mf]

\* vec.max()
MaxOf(vec) == CHOOSE m \in { vec[i] : i \in 1..Len(vec) } :
                  \A i \in 1..Len(vec) : vec[i] <= m

\* round(a / 100.) * 100. : Python rounds a half to the even neighbour
Round100(a) ==
    LET q == a \div 100
        r == a % 100
    IN IF r < 50 THEN q * 100
       ELSE IF r > 50 THEN (q + 1) * 100
       ELSE IF q % 2 = 0 THEN q * 100 ELSE (q + 1) * 100

\* shaper.vibrs * 100
Pct(v) == v * 100

\* float('inf'): above every percentage of a fraction in [0, 1]
Inf == Pct(1000) + 1

\* a PSD value in the unit of the thresholds
Hundredths(v) == v * 100

Vec(attr) == heap[calibration_data[attr]]

----------------------------------------------------------------------------
(* plot_freq_response: the selection of the two recommendations *)

\* the locals before the loop
InitSel ==
    [lowvib_shaper |-> "None", lowvib_shaper_vibrs |-> Inf,
     lowvib_shaper_accel |-> 0, performance_shaper_vibr |-> NoOption]

\* Variant of LowVibCond: the smoothing bound is inclusive
LowVibCond_Inclusive(st, shaper) ==
    LET shaper_max_accel == Round100(shaper.max_accel)
    IN /\ \/ Pct(shaper.vibrs) < st.lowvib_shaper_vibrs
          \/ /\ Pct(shaper.vibrs) = st.lowvib_shaper_vibrs
             /\ shaper_max_accel > st.lowvib_shaper_accel
       /\ shaper.smoothing <= MAX_SMOOTHING

\* Variant of LowVibCond: no comparison of the accelerations on a tie
LowVibCond_NoTieBreak(st, shaper) ==
    /\ Pct(shaper.vibrs) < st.lowvib_shaper_vibrs
    /\ shaper.smoothing < MAX_SMOOTHING

\* the condition under which a shaper replaces the low vibration shaper
LowVibCond(st, shaper) ==
    LET shaper_max_accel == Round100(shaper.max_accel)
    IN /\ \/ Pct(shaper.vibrs) < st.lowvib_shaper_vibrs
          \/ /\ Pct(shaper.vibrs) = st.lowvib_shaper_vibrs
             /\ shaper_max_accel > st.lowvib_shaper_accel
       /\ shaper.smoothing < MAX_SMOOTHING

\* Variant of LoopBody: lowvib_shaper_vibrs is not assigned
LoopBody_KeepsVibrs(st, shaper, perf) ==
    LET st1 == IF shaper.name = perf
               THEN [st EXCEPT !.performance_shaper_vibr = Some(Pct(shaper.vibrs))]
               ELSE st
    IN IF LowVibCond(st1, shaper)
       THEN [st1 EXCEPT !.lowvib_shaper_accel = Round100(shaper.max_accel),
                        !.lowvib_shaper = shaper.name]
       ELSE st1

\* one iteration of the loop over the shapers
LoopBody(st, shaper, perf) ==
    LET st1 == IF shaper.name = perf
               THEN [st EXCEPT !.performance_shaper_vibr = Some(Pct(shaper.vibrs))]
               ELSE st
    IN IF LowVibCond(st1, shaper)
       THEN [st1 EXCEPT !.lowvib_shaper_accel = Round100(shaper.max_accel),
                        !.lowvib_shaper = shaper.name,
                        !.lowvib_shaper_vibrs = Pct(shaper.vibrs)]
       ELSE st1

\* Variant of BothShown: the vibrations are not compared
BothShown_NoVibrCheck(st, perf) ==
    /\ st.lowvib_shaper /= "None"
    /\ st.lowvib_shaper /= perf

\* whether both recommendations are shown
BothShown(st, perf) ==
    /\ st.lowvib_shaper /= "None"
    /\ st.lowvib_shaper /= perf
    /\ st.lowvib_shaper_vibrs <= st.performance_shaper_vibr.val

\* Variant of Recommend: a performance shaper that was not found is not an
\* error
Recommend_Unchecked(st, perf) ==
    IF BothShown(st, perf)
    THEN [error |-> FALSE,
          legend |-> <<[kind |-> "performance", name |-> perf],
                       [kind |-> "low vibrations", name |-> st.lowvib_shaper]>>]
    ELSE [error |-> FALSE, legend |-> <<[kind |-> "best", name |-> perf]>>]

\* what follows the loop: the error, or the recommendations of the legend
Recommend(st, perf) ==
    IF ~st.performance_shaper_vibr.set
    THEN [error |-> TRUE, legend |-> <<>>]
    ELSE IF BothShown(st, perf)
    THEN [error |-> FALSE,
          legend |-> <<[kind |-> "performance", name |-> perf],
                       [kind |-> "low vibrations", name |-> st.lowvib_shaper]>>]
    ELSE [error |-> FALSE, legend |-> <<[kind |-> "best", name |-> perf]>>]

\* the loop from its start to its end over a whole list
LoopOver(list, perf) ==
    LET F[i \in 0..Len(list)] ==
            IF i = 0 THEN InitSel ELSE LoopBody(F[i - 1], list[i], perf)
    IN F[Len(list)]

----------------------------------------------------------------------------
(* graph_resonances_test_results: trimming and peak detection *)

\* Variant of TrimRecord: the trimmed values are written into the buffers of
\* the record
TrimRecord_InPlace(cd, hp, mf) ==
    LET freqs == hp[cd.freq_bins]
        mask == MaskLeq(freqs, mf)
        n == Len(hp)
    IN [heap |-> ([hp EXCEPT ![cd.psd_sum] = BoolIndex(hp[cd.psd_sum], mask),
                             ![cd.psd_x] = BoolIndex(hp[cd.psd_x], mask),
                             ![cd.psd_y] = BoolIndex(hp[cd.psd_y], mask),
                             ![cd.psd_z] = BoolIndex(hp[cd.psd_z], mask)]
                   \o <<BoolIndex(freqs, mask)>>),
        rec |-> [cd EXCEPT !.freqs = n + 1]]

\* Variant of TrimRecord: freqs is bound to the untrimmed freq_bins
TrimRecord_FreqsAlias(cd, hp, mf) ==
    LET freqs == hp[cd.freq_bins]
        mask == MaskLeq(freqs, mf)
        n == Len(hp)
    IN [heap |-> hp \o <<BoolIndex(hp[cd.psd_sum], mask),
                         BoolIndex(hp[cd.psd_x], mask),
                         BoolIndex(hp[cd.psd_y], mask),
                         BoolIndex(hp[cd.psd_z], mask)>>,
        rec |-> [cd EXCEPT !.psd_sum = n + 1, !.psd_x = n + 2,
                           !.psd_y = n + 3, !.psd_z = n + 4,
                           !.freqs = cd.freq_bins]]

\* lines 295-300: each right-hand side is a new array, bound to an attribute
\* of the same object; freq_bins is read and never assigned
TrimRecord(cd, hp, mf) ==
    LET freqs == hp[cd.freq_bins]
        mask == MaskLeq(freqs, mf)
        n == Len(hp)
    IN [heap |-> hp \o <<BoolIndex(hp[cd.psd_sum], mask),
                         BoolIndex(hp[cd.psd_x], mask),
                         BoolIndex(hp[cd.psd_y], mask),
                         BoolIndex(hp[cd.psd_z], mask),
                         BoolIndex(freqs, mask)>>,
        rec |-> [cd EXCEPT !.psd_sum = n + 1, !.psd_x = n + 2,
                           !.psd_y = n + 3, !.psd_z = n + 4,
                           !.freqs = n + 5]]

PeaksThreshold(psd_sum) ==
    <<PEAKS_DETECTION_THRESHOLD * MaxOf(psd_sum),
      PEAKS_EFFECT_THRESHOLD * MaxOf(psd_sum)>>

\* Variant of DetectionArg: the effect threshold is handed to detect_peaks
DetectionArg_Effect(thr) == thr[2]

\* the threshold handed to detect_peaks: peaks_threshold[0]
DetectionArg(thr) == thr[1]

\* common.detect_peaks: the strict local maxima above the threshold, in
\* ascending order
DetectPeaks(psd, freqs, threshold) ==
    LET IsPeak(i) == /\ 1 < i /\ i < Len(psd)
                     /\ psd[i] > psd[i - 1] /\ psd[i] > psd[i + 1]
                     /\ Hundredths(psd[i]) > threshold
        F[i \in 0..Len(psd)] ==
            IF i = 0 THEN <<>>
            ELSE IF IsPeak(i) THEN Append(F[i - 1], i) ELSE F[i - 1]
        found == F[Len(psd)]
    IN [num_peaks |-> Len(found), peaks |-> found,
        peaks_freqs |-> [k \in 1..Len(found) |-> freqs[found[k]]]]

\* np.sum(psd_sum[peaks] > peaks_threshold[1])
CountAboveEffect(psd, pk, thr) ==
    Cardinality({ k \in 1..Len(pk) : Hundredths(psd[pk[k]]) > thr[2] })

----------------------------------------------------------------------------
(* The pipeline *)

NoRecord == [freq_bins |-> 0, psd_sum |-> 0, psd_x |-> 0, psd_y |-> 0,
             psd_z |-> 0, freqs |-> 0]

cfgVars == <<max_smoothing, max_freq>>
dataVars == <<heap, calibration_data, analyzed>>
evalVars == <<shapers, performance_shaper>>
loopVars == <<idx, sel>>
peakVars == <<peaks_threshold, peaks, peaks_freqs, num_peaks,
              num_peaks_above_effect_threshold>>

Init ==
    /\ pc = "load"
    /\ trace = <<>>
    /\ failed_at = "None"
    /\ max_smoothing \in CallerMaxSmoothings
    /\ max_freq \in CallerMaxFreqs
    /\ heap = <<>>
    /\ calibration_data = NoRecord
    /\ analyzed = [rec |-> NoRecord, heap |-> <<>>]
    /\ shapers = <<>>
    /\ performance_shaper = "None"
    /\ idx = 0
    /\ sel = InitSel
    /\ peaks_threshold = <<0, 0>>
    /\ peaks = <<>>
    /\ peaks_freqs = <<>>
    /\ num_peaks = 0
    /\ num_peaks_above_effect_threshold = 0
    /\ legend = <<>>
    /\ fig = "none"
    /\ console = <<>>

\* an exception leaves graph_resonances_test_results: nothing catches it
Raise(stage) ==
    /\ pc' = "failed"
    /\ failed_at' = stage

\* load_accelerometer_data
Load ==
    /\ pc = "load"
    /\ trace' = Append(trace, "load")
    /\ \/ pc' = "analyze" /\ UNCHANGED failed_at
       \/ Raise("load")
    /\ UNCHANGED <<cfgVars, dataVars, evalVars, loopVars, peakVars, legend,
                   fig, console>>

\* calibrate_shaper: process_accelerometer_data, normalize_to_frequencies
Analyze ==
    /\ pc = "analyze"
    /\ trace' = Append(trace, "analyze")
    /\ \/ /\ \E out \in ExploredCaptures(max_smoothing) :
                /\ heap' = <<out.freq_bins, out.psd_sum, out.psd_x,
                             out.psd_y, out.psd_z>>
                /\ calibration_data' =
                       [freq_bins |-> 1, psd_sum |-> 2, psd_x |-> 3,
                        psd_y |-> 4, psd_z |-> 5, freqs |-> 0]
                /\ analyzed' = [rec |-> calibration_data', heap |-> heap']
          /\ pc' = "estimate"
          /\ UNCHANGED failed_at
       \/ /\ Raise("analyze")
          /\ UNCHANGED dataVars
    /\ UNCHANGED <<cfgVars, evalVars, loopVars, peakVars, legend, fig,
                   console>>

\* calibrate_shaper: compute_mechanical_parameters
Estimate ==
    /\ pc = "estimate"
    /\ trace' = Append(trace, "estimate")
    /\ \/ pc' = "evaluate" /\ UNCHANGED failed_at
       \/ Raise("estimate")
    /\ UNCHANGED <<cfgVars, dataVars, evalVars, loopVars, peakVars, legend,
                   fig, console>>

\* calibrate_shaper: find_best_shaper, the check of its result, the print
Evaluate ==
    /\ pc = "evaluate"
    /\ trace' = Append(trace, "evaluate")
    /\ \/ /\ Raise("evaluate")
          /\ UNCHANGED <<evalVars, console>>
       \/ \E out \in ExploredOutputs(Vec("psd_x"), max_freq, max_smoothing) :
             IF out.shaper = "None"
             THEN /\ console' = Append(console, "No recommended shaper")
                  /\ Raise("evaluate")
                  /\ UNCHANGED evalVars
             ELSE /\ console' = Append(console, "Recommended shaper")
                  /\ performance_shaper' = out.shaper
                  /\ shapers' = out.all_shapers
                  /\ pc' = "spectrogram"
                  /\ UNCHANGED failed_at
    /\ UNCHANGED <<cfgVars, dataVars, loopVars, peakVars, legend, fig>>

\* Variant of Spectrogram: the exception is caught and the pipeline goes on
Spectrogram_Swallows ==
    /\ pc = "spectrogram"
    /\ trace' = Append(trace, "spectrogram")
    /\ \/ pc' = "trim" /\ UNCHANGED failed_at
       \/ pc' = "trim" /\ failed_at' = "spectrogram"
    /\ UNCHANGED <<cfgVars, dataVars, evalVars, loopVars, peakVars, legend,
                   fig, console>>

\* compute_spectrogram
Spectrogram ==
    /\ pc = "spectrogram"
    /\ trace' = Append(trace, "spectrogram")
    /\ \/ pc' = "trim" /\ UNCHANGED failed_at
       \/ Raise("spectrogram")
    /\ UNCHANGED <<cfgVars, dataVars, evalVars, loopVars, peakVars, legend,
                   fig, console>>

\* Select only the relevant part of the PSD data
Trim ==
    /\ pc = "trim"
    /\ trace' = Append(trace, "trim")
    /\ LET t == TrimRecord(calibration_data, heap, max_freq)
       IN /\ heap' = t.heap
          /\ calibration_data' = t.rec
    /\ pc' = "detect"
    /\ UNCHANGED <<failed_at, cfgVars, analyzed, evalVars, loopVars, peakVars,
                   legend, fig, console>>

\* the thresholds, detect_peaks, the count and the print
Detect ==
    /\ pc = "detect"
    /\ trace' = Append(trace, "detect")
    /\ \/ /\ Raise("detect")
          /\ UNCHANGED <<peakVars, console>>
       \/ /\ LET thr == PeaksThreshold(Vec("psd_sum"))
                 d == DetectPeaks(Vec("psd_sum"), Vec("freqs"),
                                  DetectionArg(thr))
             IN /\ peaks_threshold' = thr
                /\ peaks' = d.peaks
                /\ peaks_freqs' = d.peaks_freqs
                /\ num_peaks' = d.num_peaks
                /\ num_peaks_above_effect_threshold' =
                       CountAboveEffect(Vec("psd_sum"), d.peaks, thr)
          /\ console' = Append(console, "Peaks detected")
          /\ pc' = "layout"
          /\ UNCHANGED failed_at
    /\ UNCHANGED <<cfgVars, dataVars, evalVars, loopVars, legend, fig>>

\* plt.subplots and the title
Layout ==
    /\ pc = "layout"
    /\ trace' = Append(trace, "layout")
    /\ fig' = "created"
    /\ pc' = "select"
    /\ UNCHANGED <<failed_at, cfgVars, dataVars, evalVars, loopVars, peakVars,
                   legend, console>>

\* plot_freq_response up to the loop
SelectEnter ==
    /\ pc = "select"
    /\ trace' = Append(trace, "select")
    /\ sel' = InitSel
    /\ idx' = 1
    /\ pc' = "loop"
    /\ UNCHANGED <<failed_at, cfgVars, dataVars, evalVars, peakVars, legend,
                   fig, console>>

\* for shaper in shapers
LoopStep ==
    /\ pc = "loop"
    /\ idx <= Len(shapers)
    /\ sel' = LoopBody(sel, shapers[idx], performance_shaper)
    /\ idx' = idx + 1
    /\ UNCHANGED <<pc, trace, failed_at, cfgVars, dataVars, evalVars,
                   peakVars, legend, fig, console>>

\* after the loop: the check of the performance shaper, the legend
SelectFinish ==
    /\ pc = "loop"
    /\ idx > Len(shapers)
    /\ LET r == Recommend(sel, performance_shaper)
       IN IF r.error
          THEN /\ Raise("select")
               /\ UNCHANGED legend
          ELSE /\ legend' = r.legend
               /\ pc' = "plot_spectrogram"
               /\ UNCHANGED failed_at
    /\ UNCHANGED <<trace, cfgVars, dataVars, evalVars, loopVars, peakVars,
                   fig, console>>

\* plot_spectrogram and the return of the figure
PlotSpectrogram ==
    /\ pc = "plot_spectrogram"
    /\ trace' = Append(trace, "plot_spectrogram")
    /\ fig' = "returned"
    /\ pc' = "done"
    /\ UNCHANGED <<failed_at, cfgVars, dataVars, evalVars, loopVars, peakVars,
                   legend, console>>

Next ==
    \/ Load
    \/ Analyze
    \/ Estimate
    \/ Evaluate
    \/ Spectrogram
    \/ Trim
    \/ Detect
    \/ Layout
    \/ SelectEnter
    \/ LoopStep
    \/ SelectFinish
    \/ PlotSpectrogram

Spec == Init /\ [][Next]_vars

----------------------------------------------------------------------------
(* Vocabulary of the properties *)

StageOrder == <<"load", "analyze", "estimate", "evaluate", "spectrogram",
                "trim", "detect", "layout", "select", "plot_spectrogram">>

Started(stage) == \E k \in 1..Len(trace) : trace[k] = stage

\* the loop of plot_freq_response has ended
AfterLoop ==
    \/ pc = "loop" /\ idx > Len(shapers)
    \/ pc \in {"plot_spectrogram", "done"}
    \/ pc = "failed" /\ failed_at = "select"

\* the selection has produced its recommendations
Selected == pc \in {"plot_spectrogram", "done"}

\* the candidates that pass the smoothing filter of the loop
Passing(list) == { i \in 1..Len(list) : list[i].smoothing < MAX_SMOOTHING }

\* the passing candidates of minimum vibration fraction
MinVibr(list) ==
    { i \in Passing(list) :
        \A j \in Passing(list) : list[i].vibrs <= list[j].vibrs }

IndexOf(list, name) == CHOOSE i \in 1..Len(list) : list[i].name = name

InList(list, name) == \E i \in 1..Len(list) : list[i].name = name

LowVibEntries == { k \in 1..Len(legend) : legend[k].kind = "low vibrations" }

PsdAttrs == {"psd_sum", "psd_x", "psd_y", "psd_z"}

IsPrefix(s, t) == Len(s) <= Len(t) /\ \A k \in 1..Len(s) : s[k] = t[k]

\* detect_peaks has returned
Detected == Started("detect") /\ failed_at /= "detect"

Permute(list, p) == [i \in 1..Len(list) |-> list[p[i]]]

\* the run has ended with the loop of plot_freq_response behind it
Ended == pc = "done" \/ (pc = "failed" /\ failed_at = "select")

\* the result of plot_freq_response on a list, from the start of its loop
Outcome(list, perf) == Recommend(LoopOver(list, perf), perf)

\* the passing candidates of minimum vibration percentage and, among those,
\* of highest rounded acceleration
Best(list) ==
    { i \in MinVibr(list) :
        \A j \in MinVibr(list) :
            Round100(list[j].max_accel) <= Round100(list[i].max_accel) }

----------------------------------------------------------------------------
(* C1: when the selection loop has ended, the low vibration shaper it holds
   is a candidate that passes the smoothing filter, and no candidate that
   passes the filter has a strictly lower vibration fraction; it holds none
   exactly when no candidate passes the filter. *)
C1_LowVibIsMinimum ==
    AfterLoop =>
        /\ (Passing(shapers) = {}) <=> (sel.lowvib_shaper = "None")
        /\ Passing(shapers) /= {} =>
              \E i \in Passing(shapers) :
                  /\ shapers[i].name = sel.lowvib_shaper
                  /\ \A j \in Passing(shapers) :
                         shapers[j].vibrs >= shapers[i].vibrs

\* two passing candidates of different vibration, the lower one later in the
\* list and selected
C1_Witness ==
    /\ AfterLoop
    /\ \E i, j \in Passing(shapers) :
          /\ i < j
          /\ shapers[i].vibrs > shapers[j].vibrs
          /\ sel.lowvib_shaper = shapers[j].name

----------------------------------------------------------------------------
(* C2 as stated: a low vibration recommendation of the result has a
   smoothing strictly below the max_smoothing given by the caller. *)
C2_BelowCallerLimit ==
    max_smoothing.given =>
        \A k \in LowVibEntries :
            shapers[IndexOf(shapers, legend[k].name)].smoothing
                < max_smoothing.val

(* C2 as amended: the low vibration shaper of the loop, and the low vibration
   recommendation of the result, have a smoothing strictly below the module
   constant MAX_SMOOTHING, whatever max_smoothing the caller gave. *)
C2_BelowModuleLimit ==
    /\ AfterLoop /\ sel.lowvib_shaper /= "None" =>
          shapers[IndexOf(shapers, sel.lowvib_shaper)].smoothing
              < MAX_SMOOTHING
    /\ \A k \in LowVibEntries :
          /\ InList(shapers, legend[k].name)
          /\ shapers[IndexOf(shapers, legend[k].name)].smoothing
                 < MAX_SMOOTHING

\* a low vibration recommendation above the caller's limit, while a candidate
\* of lower vibration sits exactly on MAX_SMOOTHING
C2_Witness ==
    /\ max_smoothing.given
    /\ \E k \in LowVibEntries :
          /\ shapers[IndexOf(shapers, legend[k].name)].smoothing
                 >= max_smoothing.val
          /\ \E j \in 1..Len(shapers) :
                /\ shapers[j].smoothing = MAX_SMOOTHING
                /\ shapers[j].vibrs
                       < shapers[IndexOf(shapers, legend[k].name)].vibrs

----------------------------------------------------------------------------
(* C3 as stated: when several candidates passing the filter share the minimum
   vibration fraction and their maximum accelerations are not all equal, the
   low vibration shaper of the loop is one of the highest maximum
   acceleration among them. *)
C3_HigherAccelWins ==
    AfterLoop =>
        LET T == MinVibr(shapers)
        IN (\E i, j \in T : shapers[i].max_accel /= shapers[j].max_accel) =>
              \A i \in T :
                  shapers[i].max_accel
                      <= shapers[IndexOf(shapers, sel.lowvib_shaper)].max_accel

----------------------------------------------------------------------------
(* C4: when the selection succeeds and no candidate passes the filter, or the
   low vibration shaper is the performance shaper, or its vibration fraction
   exceeds that of the performance shaper, the result is the single "best
   shaper" recommendation of the performance shaper. *)
C4_Collapse ==
    Selected =>
        LET perf == shapers[IndexOf(shapers, performance_shaper)]
            Collapses ==
                \/ Passing(shapers) = {}
                \/ sel.lowvib_shaper = performance_shaper
                \/ /\ sel.lowvib_shaper /= "None"
                   /\ shapers[IndexOf(shapers, sel.lowvib_shaper)].vibrs
                          > perf.vibrs
        IN Collapses =>
              legend = <<[kind |-> "best", name |-> performance_shaper]>>

\* a low vibration shaper, not the performance shaper, of higher vibration
C4_Witness ==
    /\ pc = "done"
    /\ sel.lowvib_shaper \notin {"None", performance_shaper}
    /\ shapers[IndexOf(shapers, sel.lowvib_shaper)].vibrs
           > shapers[IndexOf(shapers, performance_shaper)].vibrs
    /\ Len(legend) = 1

----------------------------------------------------------------------------
(* C5 as stated: the result of the run is the result on every reordering of
   the same candidates. *)
C5_OrderIndependent ==
    Ended =>
        \A p \in Permutations(1..Len(shapers)) :
            Outcome(Permute(shapers, p), performance_shaper)
                = [error |-> (pc = "failed"), legend |-> legend]

(* C5 as amended: the result of the run is the result on every reordering of
   the same candidates, provided at most one candidate passing the filter has
   both the minimum vibration percentage and, among those, the highest
   maximum acceleration rounded to the hundred. *)
C5_OrderIndependentUnlessTied ==
    (Ended /\ Cardinality(Best(shapers)) <= 1) =>
        \A p \in Permutations(1..Len(shapers)) :
            Outcome(Permute(shapers, p), performance_shaper)
                = [error |-> (pc = "failed"), legend |-> legend]

\* two passing candidates tie on the vibration, the one of higher rounded
\* acceleration comes later and is recommended
C5_Witness ==
    /\ pc = "done"
    /\ Cardinality(Best(shapers)) = 1
    /\ Cardinality(MinVibr(shapers)) >= 2
    /\ \E i \in MinVibr(shapers) : \E j \in Best(shapers) : i < j
    /\ LowVibEntries /= {}

----------------------------------------------------------------------------
(* C6: a run in which the evaluator names no shaper, or returns no candidate,
   or names a shaper that is not among the candidates, ends in an error with
   no recommendation and no figure returned; a run that produces
   recommendations names the evaluator's shaper, found among the candidates,
   as the performance or best shaper. *)
C6_NoDefaultRecommendation ==
    /\ (pc \in {"failed", "done"}
        /\ (performance_shaper = "None" \/ shapers = <<>>
            \/ ~InList(shapers, performance_shaper))) =>
          (pc = "failed" /\ legend = <<>> /\ fig /= "returned")
    /\ (Len(console) > 0 /\ console[Len(console)] = "No recommended shaper") =>
          (pc = "failed" /\ failed_at = "evaluate")
    /\ pc = "failed" => legend = <<>>
    /\ Selected =>
          /\ InList(shapers, performance_shaper)
          /\ legend /= <<>>
          /\ legend[1].kind \in {"performance", "best"}
          /\ legend[1].name = performance_shaper

\* the evaluator's shaper is not among the candidates, of which one passes
\* the filter: the selection ends in the error
C6_Witness ==
    /\ pc = "failed"
    /\ failed_at = "select"
    /\ shapers /= <<>>
    /\ sel.lowvib_shaper /= "None"
    /\ legend = <<>>

----------------------------------------------------------------------------
(* C7: the stages started are a prefix of the fixed order, each at most
   once; the stage that fails is the last one started; a failed run returns
   no figure and a figure is returned only after every stage has run. *)
C7_LinearFailFast ==
    /\ IsPrefix(trace, StageOrder)
    /\ (failed_at /= "None") <=> (pc = "failed")
    /\ pc = "failed" =>
          /\ failed_at = trace[Len(trace)]
          /\ fig /= "returned"
          /\ legend = <<>>
    /\ fig = "returned" => (pc = "done" /\ trace = StageOrder)

\* the peak detection fails after six stages have run
C7_Witness ==
    /\ pc = "failed"
    /\ failed_at = "detect"
    /\ Len(trace) = 7
    /\ fig = "none"

----------------------------------------------------------------------------
(* C8 as stated: after the trimming the record's psd_sum, psd_x, psd_y and
   psd_z hold the values the analyzer produced. *)
C8_RecordUnchanged ==
    Started("trim") =>
        \A a \in PsdAttrs : Vec(a) = analyzed.heap[analyzed.rec[a]]

(* C8 as amended: the trimming rebinds psd_sum, psd_x, psd_y and psd_z of the
   one record to new arrays, which hold the analyzer's values at the
   frequencies <= max_freq; it leaves the freq_bins attribute and every
   buffer the analyzer produced as they were.  Before the trimming the record
   is as the analyzer returned it. *)
C8_TrimRebinds ==
    /\ (calibration_data /= NoRecord /\ ~Started("trim")) =>
          (calibration_data = analyzed.rec /\ heap = analyzed.heap)
    /\ Started("trim") =>
          /\ calibration_data.freq_bins = analyzed.rec.freq_bins
          /\ \A id \in 1..Len(analyzed.heap) : heap[id] = analyzed.heap[id]
          /\ \A a \in PsdAttrs :
                LET orig == analyzed.heap[analyzed.rec[a]]
                    kept == { i \in 1..Len(orig) :
                                Vec("freq_bins")[i] <= max_freq }
                IN /\ calibration_data[a] > Len(analyzed.heap)
                   /\ Len(Vec(a)) = Cardinality(kept)
                   /\ \A k \in 1..Len(Vec(a)) : Vec(a)[k] = orig[k]

\* the trimming has removed bins
C8_Witness ==
    /\ Started("trim")
    /\ Len(Vec("psd_sum")) < Len(analyzed.heap[analyzed.rec.psd_sum])
    /\ pc = "done"

----------------------------------------------------------------------------
(* C9 as stated: the four PSD vectors of the record have the length of its
   frequency bin vector, and after the trimming the retained frequencies and
   the peak frequencies are <= max_freq. *)
C9_AlignedWithFreqBins ==
    calibration_data /= NoRecord =>
        /\ \A a \in PsdAttrs : Len(Vec(a)) = Len(Vec("freq_bins"))
        /\ Started("trim") =>
              /\ \A k \in 1..Len(Vec("freqs")) : Vec("freqs")[k] <= max_freq
              /\ \A k \in 1..Len(peaks_freqs) : peaks_freqs[k] <= max_freq

(* C9 as amended: the four PSD vectors of the record have the length of
   freq_bins before the trimming and the length of the trimmed vector freqs
   after it, while freq_bins keeps its untrimmed length; after the trimming
   the retained frequencies and the peak frequencies are <= max_freq. *)
C9_AlignedWithFreqs ==
    calibration_data /= NoRecord =>
        /\ ~Started("trim") =>
              /\ calibration_data.freqs = 0
              /\ \A a \in PsdAttrs : Len(Vec(a)) = Len(Vec("freq_bins"))
        /\ Started("trim") =>
              /\ calibration_data.freqs /= 0
              /\ \A a \in PsdAttrs : Len(Vec(a)) = Len(Vec("freqs"))
              /\ Len(Vec("freq_bins")) = Len(analyzed.heap[analyzed.rec.freq_bins])
              /\ \A k \in 1..Len(Vec("freqs")) : Vec("freqs")[k] <= max_freq
              /\ Len(peaks_freqs) = Len(peaks)
              /\ \A k \in 1..Len(peaks) :
                    /\ peaks_freqs[k] = Vec("freqs")[peaks[k]]
                    /\ peaks_freqs[k] <= max_freq

\* a peak was detected on a record whose trimming removed bins
C9_Witness ==
    /\ pc = "done"
    /\ num_peaks >= 1
    /\ Len(Vec("freqs")) < Len(Vec("freq_bins"))

----------------------------------------------------------------------------
(* C10: the thresholds are 0.05 and 0.12 times the maximum of the combined
   PSD; every strict local maximum above the detection threshold is a
   detected peak, whether or not it is above the effect threshold, and every
   detected peak is above the detection threshold; the count above the
   effect threshold is the number of detected peaks above it, at most the
   number of detected peaks. *)
C10_DetectionThresholdOnly ==
    Detected =>
        LET psd == Vec("psd_sum")
            top == MaxOf(psd)
            pk == { peaks[k] : k \in 1..Len(peaks) }
        IN /\ peaks_threshold[1] = PEAKS_DETECTION_THRESHOLD * top
           /\ peaks_threshold[2] = PEAKS_EFFECT_THRESHOLD * top
           /\ \A i \in 2..(Len(psd) - 1) :
                 (/\ psd[i] > psd[i - 1] /\ psd[i] > psd[i + 1]
                  /\ 100 * psd[i] > 5 * top) => i \in pk
           /\ \A i \in pk : 100 * psd[i] > 5 * top
           /\ num_peaks = Len(peaks)
           /\ num_peaks = Cardinality(pk)
           /\ num_peaks_above_effect_threshold
                  = Cardinality({ i \in pk : 100 * psd[i] > 12 * top })
           /\ num_peaks_above_effect_threshold <= num_peaks

\* a detected peak between the two thresholds beside one above the effect
\* threshold
C10_Witness ==
    /\ Detected
    /\ num_peaks_above_effect_threshold >= 1
    /\ num_peaks_above_effect_threshold < num_peaks

====
